---- MODULE Spec2Model ----
(***************************************************************************)
(* Model of mercury236.c: the Mercury 236 power meter polling utility.     *)
(*                                                                         *)
(* The program opens the RS485 dongle, probes the channel, opens a         *)
(* session, reads ten quantities, closes the session, closes the           *)
(* descriptor and prints.  Every command function writes one request,      *)
(* sleeps, and receives one reply which it validates and decodes.          *)
(*                                                                         *)
(* Bytes are integers 0..255, buffers are sequences of bytes (C index i    *)
(* is TLA+ index i+1).  A float is kept as the exact pair                  *)
(* [val, factor] of the integer and the divisor the code divides it by.    *)
(* UInt16 fields overlaid on a buffer are read in the byte order of the    *)
(* little-endian hosts the utility is built for (low byte first).          *)
(***************************************************************************)
EXTENDS Integers, Sequences, FiniteSets

(***************************************************************************)
(* Bounds of the model.                                                    *)
(***************************************************************************)
MaxMeter == 1     \* meter readings 0..MaxMeter (payload patterns)
MaxJunk  == 1     \* stack garbage patterns 0..MaxJunk of uninitialised floats
MaxLen   == 20    \* codec inputs have lengths 0..MaxLen
MaxFill  == 2     \* codec inputs have fill patterns 0..MaxFill

(***************************************************************************)
(* Program constants.                                                      *)
(***************************************************************************)
TIME_OUT    == 50
CH_TIME_OUT == 2
BSZ         == 255
PM_ADDRESS  == 0

OK                      == 0
ILLEGAL_CMD             == 1
INTERNAL_COUNTER_ERR    == 2
PERMISSION_DENIED       == 3
CLOCK_ALREADY_CORRECTED == 4
CHANNEL_ISNT_OPEN       == 5
WRONG_RESULT_SIZE       == 256
WRONG_CRC               == 257
CHECK_CHANNEL_TIME_OUT  == 258

EXIT_OK   == 0
EXIT_FAIL == 1

PP_RESET     == 0
PP_TODAY     == 4
PP_YESTERDAY == 5

\* sizeof of the packed structures
SizeofUInt16       == 2
SizeofResult_1b    == 4
SizeofResult_3b    == 6
SizeofResult_3x3b  == 12
SizeofResult_4x3b  == 15
SizeofResult_4x4b  == 19

(***************************************************************************)
(* C integer operators on non-negative integers.                           *)
(***************************************************************************)
RECURSIVE Xor(_, _)
Xor(a, b) ==
    IF a = 0 THEN b
    ELSE IF b = 0 THEN a
    ELSE (((a % 2) + (b % 2)) % 2) + 2 * Xor(a \div 2, b \div 2)

RECURSIVE And(_, _)
And(a, b) ==
    IF a = 0 \/ b = 0 THEN 0
    ELSE ((a % 2) * (b % 2)) + 2 * And(a \div 2, b \div 2)

RECURSIVE Or(_, _)
Or(a, b) ==
    IF a = 0 THEN b
    ELSE IF b = 0 THEN a
    ELSE (IF a % 2 = 1 \/ b % 2 = 1 THEN 1 ELSE 0) + 2 * Or(a \div 2, b \div 2)

RECURSIVE Shl(_, _)
Shl(a, n) == IF n = 0 THEN a ELSE Shl(2 * a, n - 1)

\* the int whose upper and lower 16 bits are hi and lo (two's complement)
Int32(hi, lo) ==
    IF hi >= 32768 THEN (hi - 65536) * 65536 + lo ELSE hi * 65536 + lo

(***************************************************************************)
(* ModRTU_CRC                                                              *)
(***************************************************************************)
\* one pass of the bit loop: crc >>= 1, and ^= 0xA001 when the LSB was set
CrcShift(crc) ==
    IF And(crc, 1) # 0 THEN Xor(crc \div 2, 40961) ELSE crc \div 2

\* the bit loop, i passes to go; each pass takes the value of the one before
RECURSIVE CrcBits(_, _)
CrcBits(crc, i) ==
    IF i = 0 THEN crc
    ELSE CHOOSE r \in { CrcBits(next, i - 1) : next \in {CrcShift(crc)} } : TRUE

\* the crc after the byte loop has run over buf[0 .. pos-1]; crc is a UInt16
RECURSIVE CrcLoop(_, _)
CrcLoop(bytes, pos) ==
    IF pos = 0 THEN 65535
    ELSE CHOOSE r \in { CrcBits(crc, 8) :
                         crc \in { Xor(prev, bytes[pos]) :
                                   prev \in {CrcLoop(bytes, pos - 1)} } } : TRUE

ModRTU_CRC(bytes, size) == CrcLoop(bytes, size)

\* the UInt16 CRC member that follows off bytes of a packed structure
CRCField(bytes, off) == bytes[off + 1] + 256 * bytes[off + 2]

\* WithCRC with the checksum stored high byte first
WithCRC_HighFirst(body) ==
    LET crc == ModRTU_CRC(body, Len(body))
    IN  body \o <<crc \div 256, crc % 256>>

\* the bytes of a command structure whose CRC member has been assigned
WithCRC(body) ==
    LET crc == ModRTU_CRC(body, Len(body))
    IN  body \o <<crc % 256, crc \div 256>>

(***************************************************************************)
(* Response validators.  size is what read() returned, which is not 0.      *)
(***************************************************************************)
\* checkResult_1b returning res->result without the mask
checkResult_1b_NoMask(bytes, size) ==
    IF size # SizeofResult_1b THEN WRONG_RESULT_SIZE
    ELSE IF ModRTU_CRC(bytes, size - SizeofUInt16) # CRCField(bytes, 2) THEN WRONG_CRC
    ELSE bytes[2]

checkResult_1b(bytes, size) ==
    IF size # SizeofResult_1b THEN WRONG_RESULT_SIZE
    ELSE IF ModRTU_CRC(bytes, size - SizeofUInt16) # CRCField(bytes, 2) THEN WRONG_CRC
    ELSE And(bytes[2], 15)

checkResult_3b(bytes, size) ==
    IF size # SizeofResult_3b THEN WRONG_RESULT_SIZE
    ELSE IF ModRTU_CRC(bytes, size - SizeofUInt16) # CRCField(bytes, 4) THEN WRONG_CRC
    ELSE OK

\* checkResult_3x3b rejecting a reply whose address is not the meter's
checkResult_3x3b_Addressed(bytes, size) ==
    IF size # SizeofResult_3x3b THEN WRONG_RESULT_SIZE
    ELSE IF ModRTU_CRC(bytes, size - SizeofUInt16) # CRCField(bytes, 10) THEN WRONG_CRC
    ELSE IF bytes[1] # PM_ADDRESS THEN WRONG_CRC
    ELSE OK

checkResult_3x3b(bytes, size) ==
    IF size # SizeofResult_3x3b THEN WRONG_RESULT_SIZE
    ELSE IF ModRTU_CRC(bytes, size - SizeofUInt16) # CRCField(bytes, 10) THEN WRONG_CRC
    ELSE OK

checkResult_4x3b(bytes, size) ==
    IF size # SizeofResult_4x3b THEN WRONG_RESULT_SIZE
    ELSE IF ModRTU_CRC(bytes, size - SizeofUInt16) # CRCField(bytes, 13) THEN WRONG_CRC
    ELSE OK

\* checkResult_4x4b with the size test len < sizeof(Result_4x4b)
checkResult_4x4b_AtLeast(bytes, size) ==
    IF size < SizeofResult_4x4b THEN WRONG_RESULT_SIZE
    ELSE IF ModRTU_CRC(bytes, size - SizeofUInt16) # CRCField(bytes, 17) THEN WRONG_CRC
    ELSE OK

checkResult_4x4b(bytes, size) ==
    IF size # SizeofResult_4x4b THEN WRONG_RESULT_SIZE
    ELSE IF ModRTU_CRC(bytes, size - SizeofUInt16) # CRCField(bytes, 17) THEN WRONG_CRC
    ELSE OK

(***************************************************************************)
(* Value decoders.                                                         *)
(***************************************************************************)
\* B3F reading the three bytes in big-endian order
B3F_BigEndian(b, factor) ==
    [val |-> Or(Or(Shl(b[1], 16), Shl(b[2], 8)), b[3]), factor |-> factor]

B3F(b, factor) ==
    [val |-> Or(Or(Shl(b[1], 16), Shl(b[3], 8)), b[2]), factor |-> factor]

\* (b[1] << 24) | (b[0] << 16) | (b[3] << 8) | b[2] in a 32-bit int: the
\* shift by 24 reaches the sign bit when b[1] >= 0x80
B4F(b, factor) ==
    [val |-> Int32(Or(Shl(b[2], 8), b[1]), Or(Shl(b[4], 8), b[3])),
     factor |-> factor]

\* the members of the result structures, as slices of the receive buffer
Field(bytes, off, n) == SubSeq(bytes, off + 1, off + n)

(***************************************************************************)
(* Requests.  Sites are the calls main makes, in program order.            *)
(***************************************************************************)
Sites ==
    << "checkChannel", "checkChannel2", "initConnection",
       "getU", "getI", "getCosF", "getF", "getA", "getP", "getS",
       "getW_PR", "getW_PY", "getW_PT", "closeConnection" >>

SiteNo(site) == CHOOSE i \in 1..Len(Sites) : Sites[i] = site

TestCmd == WithCRC(<<PM_ADDRESS, 0>>)

InitCmd == WithCRC(<<PM_ADDRESS, 1, 1, 1, 1, 1, 1, 1, 1>>)

ByeCmd == WithCRC(<<PM_ADDRESS, 2>>)

ReadParamCmd(command, paramId, BWRI) ==
    WithCRC(<<PM_ADDRESS, command, paramId, BWRI>>)

getWCmd(periodId, month, tariffNo) ==
    ReadParamCmd(5, Or(Shl(periodId, 4), And(month, 15)) % 256, tariffNo % 256)

\* the frame each call hands to write()
Request(site) ==
    CASE site \in {"checkChannel", "checkChannel2"} -> TestCmd
      [] site = "initConnection"  -> InitCmd
      [] site = "getU"            -> ReadParamCmd(8, 22, 17)
      [] site = "getI"            -> ReadParamCmd(8, 22, 33)
      [] site = "getCosF"         -> ReadParamCmd(8, 22, 48)
      [] site = "getF"            -> ReadParamCmd(8, 22, 64)
      [] site = "getA"            -> ReadParamCmd(8, 22, 81)
      [] site = "getP"            -> ReadParamCmd(8, 22, 0)
      [] site = "getS"            -> ReadParamCmd(8, 22, 8)
      [] site = "getW_PR"         -> getWCmd(PP_RESET, 0, 0)
      [] site = "getW_PY"         -> getWCmd(PP_YESTERDAY, 0, 0)
      [] site = "getW_PT"         -> getWCmd(PP_TODAY, 0, 0)
      [] site = "closeConnection" -> ByeCmd

(***************************************************************************)
(* The command functions from the reply on: what each returns for the      *)
(* size bytes read into bytes, and what it stores through its out pointer. *)
(***************************************************************************)
checkChannel(bytes, size) ==
    IF size = 0 THEN CHECK_CHANNEL_TIME_OUT ELSE checkResult_1b(bytes, size)

initConnection(bytes, size) == checkResult_1b(bytes, size)

closeConnection(bytes, size) == checkResult_1b(bytes, size)

P3V_3x3b(bytes, factor) ==
    [p1 |-> B3F(Field(bytes, 1, 3), factor),
     p2 |-> B3F(Field(bytes, 4, 3), factor),
     p3 |-> B3F(Field(bytes, 7, 3), factor)]

P3VS_4x3b(bytes, factor) ==
    [sum |-> B3F(Field(bytes, 1, 3), factor),
     p1  |-> B3F(Field(bytes, 4, 3), factor),
     p2  |-> B3F(Field(bytes, 7, 3), factor),
     p3  |-> B3F(Field(bytes, 10, 3), factor)]

P3VS_4x4b(bytes, factor) ==
    [sum |-> B4F(Field(bytes, 1, 4), factor),
     p1  |-> B4F(Field(bytes, 5, 4), factor),
     p2  |-> B4F(Field(bytes, 9, 4), factor),
     p3  |-> B4F(Field(bytes, 13, 4), factor)]

getU(bytes, size, U) ==
    LET checkResult == checkResult_3x3b(bytes, size)
    IN  [ret |-> checkResult,
         out |-> IF OK = checkResult THEN P3V_3x3b(bytes, 100) ELSE U]

getI(bytes, size, I) ==
    LET checkResult == checkResult_3x3b(bytes, size)
    IN  [ret |-> checkResult,
         out |-> IF OK = checkResult THEN P3V_3x3b(bytes, 1000) ELSE I]

getCosF(bytes, size, C) ==
    LET checkResult == checkResult_4x3b(bytes, size)
    IN  [ret |-> checkResult,
         out |-> IF OK = checkResult THEN P3VS_4x3b(bytes, 1000) ELSE C]

\* getF reading a 4-byte reply as a status frame
getF_Status(bytes, size, f) ==
    LET checkResult == IF size = SizeofResult_1b THEN checkResult_1b(bytes, size)
                       ELSE checkResult_3b(bytes, size)
    IN  [ret |-> checkResult,
         out |-> IF OK = checkResult THEN B3F(Field(bytes, 1, 3), 100) ELSE f]

getF(bytes, size, f) ==
    LET checkResult == checkResult_3b(bytes, size)
    IN  [ret |-> checkResult,
         out |-> IF OK = checkResult THEN B3F(Field(bytes, 1, 3), 100) ELSE f]

getA(bytes, size, A) ==
    LET checkResult == checkResult_3x3b(bytes, size)
    IN  [ret |-> checkResult,
         out |-> IF OK = checkResult THEN P3V_3x3b(bytes, 100) ELSE A]

getP(bytes, size, P) ==
    LET checkResult == checkResult_4x3b(bytes, size)
    IN  [ret |-> checkResult,
         out |-> IF OK = checkResult THEN P3VS_4x3b(bytes, 1000) ELSE P]

getS(bytes, size, S) ==
    LET checkResult == checkResult_4x3b(bytes, size)
    IN  [ret |-> checkResult,
         out |-> IF OK = checkResult THEN P3VS_4x3b(bytes, 1000) ELSE S]

getW(bytes, size, W) ==
    LET checkResult == checkResult_4x4b(bytes, size)
    IN  [ret |-> checkResult,
         out |-> IF OK = checkResult THEN P3VS_4x4b(bytes, 1000) ELSE W]

\* the variable of main each query call passes the address of
OutVar(site) ==
    CASE site = "getU"    -> "U"
      [] site = "getI"    -> "I"
      [] site = "getCosF" -> "C"
      [] site = "getF"    -> "f"
      [] site = "getA"    -> "A"
      [] site = "getP"    -> "P"
      [] site = "getS"    -> "S"
      [] site = "getW_PR" -> "PR"
      [] site = "getW_PY" -> "PY"
      [] site = "getW_PT" -> "PT"
      [] OTHER            -> "none"

QuerySites == { Sites[i] : i \in 4..13 }

\* the call at a site, applied to main's variables m: its return value and
\* main's variables afterwards
Call(site, bytes, size, m) ==
    LET q == CASE site = "getU"    -> getU(bytes, size, m.U)
               [] site = "getI"    -> getI(bytes, size, m.I)
               [] site = "getCosF" -> getCosF(bytes, size, m.C)
               [] site = "getF"    -> getF(bytes, size, m.f)
               [] site = "getA"    -> getA(bytes, size, m.A)
               [] site = "getP"    -> getP(bytes, size, m.P)
               [] site = "getS"    -> getS(bytes, size, m.S)
               [] site \in {"getW_PR", "getW_PY", "getW_PT"}
                                   -> getW(bytes, size, m[OutVar(site)])
               [] OTHER            -> [ret |-> OK, out |-> 0]
    IN  CASE site \in {"checkChannel", "checkChannel2"}
                 -> [ret |-> checkChannel(bytes, size), m |-> m]
          [] site = "initConnection"
                 -> [ret |-> initConnection(bytes, size), m |-> m]
          [] site = "closeConnection"
                 -> [ret |-> closeConnection(bytes, size), m |-> m]
          [] OTHER
                 -> [ret |-> q.ret, m |-> [m EXCEPT ![OutVar(site)] = q.out]]

\* nb_read exits the program on a read of 0 bytes; nb_read_impl returns it
UsesNbRead(site) == site \notin {"checkChannel", "checkChannel2"}

nb_read_exits(site, r) == UsesNbRead(site) /\ r = 0

(***************************************************************************)
(* main                                                                    *)
(***************************************************************************)
Float(v) == [val |-> v, factor |-> 1]

P3V(v) == [p1 |-> Float(v), p2 |-> Float(v), p3 |-> Float(v)]

P3VS(v) == [sum |-> Float(v), p1 |-> Float(v), p2 |-> Float(v), p3 |-> Float(v)]

\* main's measurement variables as declared: no initialiser, so each holds
\* whatever the stack holds, here the pattern j
Declared(j) ==
    [U |-> P3V(j), I |-> P3V(j), A |-> P3V(j),
     C |-> P3VS(j), P |-> P3VS(j), S |-> P3VS(j),
     PR |-> P3VS(j), PY |-> P3VS(j), PT |-> P3VS(j),
     f |-> Float(j)]

\* case CHECK_CHANNEL_TIME_OUT of the switch
TimeoutCase(m) ==
    [m EXCEPT !.U = P3V(0), !.I = P3V(0), !.P = P3VS(0), !.S = P3VS(0)]

\* the message main passes to exitFailure when the call at a site fails
FailMsg(site) ==
    CASE site = "checkChannel"    -> "Check channel failure."
      [] site = "checkChannel2"   -> "Power meter communication channel test failed."
      [] site = "initConnection"  -> "Power meter connection initialisation error."
      [] site = "getU"            -> "Cannot collect voltage data."
      [] site = "getI"            -> "Cannot collect current data."
      [] site = "getCosF"         -> "Cannot collect cos(f) data."
      [] site = "getF"            -> "Cannot collect grid frequency data."
      [] site = "getA"            -> "Cannot collect phase angles data."
      [] site = "getP"            -> "Cannot collect active power consumption data."
      [] site = "getS"            -> "Cannot collect reactive power consumption data."
      [] site \in {"getW_PR", "getW_PY", "getW_PT"}
                                  -> "Cannot collect power counters data."
      [] site = "closeConnection" -> "Power meter connection closing error."

\* mainAfter with the time-out case taken for the second probe as well
mainAfter_TimeoutAgain(site, r) ==
    IF site \in {"checkChannel", "checkChannel2"}
    THEN CASE r = OK                     -> IF site = "checkChannel"
                                            THEN "checkChannel2" ELSE "initConnection"
           [] r = CHECK_CHANNEL_TIME_OUT -> "close"
           [] OTHER                      -> "exitFailure"
    ELSE IF OK # r THEN "exitFailure"
    ELSE IF site = "closeConnection" THEN "close"
    ELSE Sites[SiteNo(site) + 1]

\* mainAfter without the test of what initConnection returned
mainAfter_IgnoreInit(site, r) ==
    IF site = "checkChannel"
    THEN CASE r = OK                     -> "checkChannel2"
           [] r = CHECK_CHANNEL_TIME_OUT -> "close"
           [] OTHER                      -> "exitFailure"
    ELSE IF OK # r /\ site # "initConnection" THEN "exitFailure"
    ELSE IF site = "closeConnection" THEN "close"
    ELSE Sites[SiteNo(site) + 1]

\* mainAfter probing again when the first probe times out
mainAfter_RetryProbe(site, r) ==
    IF site = "checkChannel"
    THEN CASE r = OK                     -> "checkChannel2"
           [] r = CHECK_CHANNEL_TIME_OUT -> "checkChannel"
           [] OTHER                      -> "exitFailure"
    ELSE IF OK # r THEN "exitFailure"
    ELSE IF site = "closeConnection" THEN "close"
    ELSE Sites[SiteNo(site) + 1]

\* where main goes when the call at a site has returned r
mainAfter(site, r) ==
    IF site = "checkChannel"
    THEN CASE r = OK                     -> "checkChannel2"
           [] r = CHECK_CHANNEL_TIME_OUT -> "close"
           [] OTHER                      -> "exitFailure"
    ELSE IF OK # r THEN "exitFailure"
    ELSE IF site = "closeConnection" THEN "close"
    ELSE Sites[SiteNo(site) + 1]

\* NextStep of a command function that writes again instead of reading
NextStep_NoRead(step) ==
    CASE step = "write"  -> "usleep"
      [] step = "usleep" -> "write"
      [] step = "read"   -> "write"

\* the statements of a command function, in order
NextStep(step) ==
    CASE step = "write"  -> "usleep"
      [] step = "usleep" -> "read"
      [] step = "read"   -> "write"

(***************************************************************************)
(* The line: what select() and read() can deliver after a request.         *)
(***************************************************************************)
StatusBytes == {0, 1, 5, 6, 16}

Addresses == {PM_ADDRESS, 1}

PayloadSizes == {3, 9, 12, 16}

Payload(mtr, k, n) == [i \in 1..n |-> (mtr * 144 + k * 17 + i * 29) % 256]

WellFormed(site, mtr) ==
    { WithCRC(<<a, s>>) : a \in Addresses, s \in StatusBytes }
      \cup { WithCRC(<<a>> \o Payload(mtr, SiteNo(site), n)) :
                a \in Addresses, n \in PayloadSizes }

Damaged(frame) ==
    { [frame EXCEPT ![Len(frame)] = (@ + 1) % 256],
      [frame EXCEPT ![Len(frame) - 1] = Xor(@, 128)],
      SubSeq(frame, 1, Len(frame) - 1),
      frame \o <<0>> }

LineData(site, mtr) ==
    WellFormed(site, mtr) \cup UNION { Damaged(fr) : fr \in WellFormed(site, mtr) }

\* nb_read_impl: the results of select() and of read()
NbReadImpl(site, mtr) ==
    { [sel |-> -1, len |-> -1, data |-> <<>>],
      [sel |-> 0, len |-> 0, data |-> <<>>],
      [sel |-> 1, len |-> -1, data |-> <<>>],
      [sel |-> 1, len |-> 0, data |-> <<>>] }
      \cup { [sel |-> 1, len |-> Len(d), data |-> d] : d \in LineData(site, mtr) }

\* NbReadImpl for every call site and every meter
LineTable ==
    [site \in {Sites[i] : i \in 1..Len(Sites)}, mtr \in 0..MaxMeter |->
        NbReadImpl(site, mtr)]

(***************************************************************************)
(* State.                                                                  *)
(***************************************************************************)
VARIABLES
    pc,        \* where main is: a site, "close", "tcsetattr", "printf",
               \* "exitFailure" or "exited"
    step,      \* the statement of the command function at pc
    msg,       \* the argument of exitFailure
    vals,      \* U, I, C, f, A, P, S, PR, PY, PT of main
    fdOpen,    \* fd refers to the open device
    sent,      \* the frames handed to write(), in order
    buf,       \* the receive buffer of the last read()
    len,       \* what the last nb_read_impl returned
    trace,     \* the calls made and the values they returned
    stdout,    \* the measurement table, once printed
    exitCode,  \* the argument of exit(), -1 while running
    meter,     \* the reading the meter reports in this run
    verdicts   \* results of the validators on buf (codec specification)

vars == << pc, step, msg, vals, fdOpen, sent, buf, len, trace, stdout,
           exitCode, meter, verdicts >>

Ev(call, site, ret) == [call |-> call, site |-> site, ret |-> ret]

Init ==
    /\ pc = "checkChannel"
    /\ step = "write"
    /\ msg = ""
    /\ \E j \in 0..MaxJunk : vals = Declared(j * 12345)
    /\ fdOpen = TRUE
    /\ sent = <<>>
    /\ buf = <<>>
    /\ len = -1
    /\ trace = <<>>
    /\ stdout = <<>>
    /\ exitCode = -1
    /\ meter \in 0..MaxMeter
    /\ verdicts = <<>>

\* write(ttyd, &cmd, sizeof(cmd))
Write ==
    /\ pc \in QuerySites \cup {"checkChannel", "checkChannel2",
                                "initConnection", "closeConnection"}
    /\ step = "write"
    /\ sent' = Append(sent, [site |-> pc, frame |-> Request(pc)])
    /\ trace' = Append(trace, Ev("write", pc, Len(Request(pc))))
    /\ step' = NextStep(step)
    /\ UNCHANGED << pc, msg, vals, fdOpen, buf, len, stdout, exitCode, meter, verdicts >>

\* usleep(TIME_OUT)
Sleep ==
    /\ step = "usleep"
    /\ trace' = Append(trace, Ev("usleep", pc, TIME_OUT))
    /\ step' = NextStep(step)
    /\ UNCHANGED << pc, msg, vals, fdOpen, sent, buf, len, stdout, exitCode, meter, verdicts >>

\* the rest of the command function and main's test of what it returns:
\* nb_read or nb_read_impl, the validator, the decoding, the branch
Receive ==
    /\ step = "read"
    /\ \E in \in LineTable[pc, meter] :
         LET io == IF in.sel > 0
                   THEN << Ev("select", pc, in.sel), Ev("read", pc, in.len) >>
                   ELSE << Ev("select", pc, in.sel) >>
             c  == Call(pc, in.data, in.len, vals)
         IN  /\ buf' = in.data
             /\ len' = in.len
             /\ step' = NextStep(step)
             /\ IF in.sel < 0
                THEN /\ pc' = "exitFailure"
                     /\ msg' = "Select failed."
                     /\ trace' = trace \o io
                     /\ vals' = vals
                ELSE IF nb_read_exits(pc, in.len)
                THEN /\ pc' = "exitFailure"
                     /\ msg' = "Communication channel timeout."
                     /\ trace' = trace \o io
                     /\ vals' = vals
                ELSE /\ pc' = mainAfter(pc, c.ret)
                     /\ msg' = IF mainAfter(pc, c.ret) = "exitFailure"
                               THEN FailMsg(pc) ELSE msg
                     /\ trace' = trace \o io \o << Ev("return", pc, c.ret) >>
                     /\ vals' = IF pc = "checkChannel" /\ c.ret = CHECK_CHANNEL_TIME_OUT
                                THEN TimeoutCase(c.m) ELSE c.m
    /\ UNCHANGED << fdOpen, sent, stdout, exitCode, meter, verdicts >>

\* exitFailure(msg): printf, exit(EXIT_FAIL)
ExitFailure ==
    /\ pc = "exitFailure"
    /\ trace' = trace \o << Ev("printf", msg, 0), Ev("exit", "exitFailure", EXIT_FAIL) >>
    /\ exitCode' = EXIT_FAIL
    /\ pc' = "exited"
    /\ UNCHANGED << step, msg, vals, fdOpen, sent, buf, len, stdout, meter, verdicts >>

\* close(fd) that leaves the descriptor open
Close_NotReleased ==
    /\ pc = "close"
    /\ fdOpen' = fdOpen
    /\ trace' = Append(trace, Ev("close", "main", IF fdOpen THEN 0 ELSE -1))
    /\ pc' = "tcsetattr"
    /\ UNCHANGED << step, msg, vals, sent, buf, len, stdout, exitCode, meter, verdicts >>

\* close(fd)
Close ==
    /\ pc = "close"
    /\ fdOpen' = FALSE
    /\ trace' = Append(trace, Ev("close", "main", IF fdOpen THEN 0 ELSE -1))
    /\ pc' = "tcsetattr"
    /\ UNCHANGED << step, msg, vals, sent, buf, len, stdout, exitCode, meter, verdicts >>

\* tcsetattr(fd, TCSANOW, &oldtio)
Restore ==
    /\ pc = "tcsetattr"
    /\ trace' = Append(trace, Ev("tcsetattr", "main", IF fdOpen THEN 0 ELSE -1))
    /\ pc' = "printf"
    /\ UNCHANGED << step, msg, vals, fdOpen, sent, buf, len, stdout, exitCode, meter, verdicts >>

\* the ten printf of the table, exit(EXIT_OK)
PrintTable ==
    /\ pc = "printf"
    /\ stdout' = << vals >>
    /\ trace' = trace \o << Ev("printf", "table", 0), Ev("exit", "main", EXIT_OK) >>
    /\ exitCode' = EXIT_OK
    /\ pc' = "exited"
    /\ UNCHANGED << step, msg, vals, fdOpen, sent, buf, len, meter, verdicts >>

Next == Write \/ Sleep \/ Receive \/ ExitFailure \/ Close \/ Restore \/ PrintTable

Spec == Init /\ [][Next]_vars

\* the program is one sequential thread and each of its calls returns:
\* select() after CH_TIME_OUT seconds at the latest, usleep() after its delay
SpecFair == Init /\ [][Next]_vars /\ WF_vars(Next)

(***************************************************************************)
(* Codec specification: the validators and the query functions applied to  *)
(* received buffers of every length up to MaxLen.                          *)
(***************************************************************************)
CodecByte(fill, i) == (fill * (67 + 16 * i)) % 256

CodecBody(n, fill) == [i \in 1..n |-> CodecByte(fill, i)]

\* what read() can leave in the buffer: arbitrary bytes, and frames that
\* end in their checksum, intact or with one checksum byte altered
CodecInputs ==
    { CodecBody(n, fill) : n \in 1..MaxLen, fill \in 0..MaxFill }
      \cup { WithCRC(CodecBody(n - 2, fill)) : n \in 2..MaxLen, fill \in 0..MaxFill }
      \cup { [WithCRC(CodecBody(n - 2, fill)) EXCEPT ![n] = (@ + 1) % 256] :
                n \in 2..MaxLen, fill \in 0..MaxFill }
      \cup { [WithCRC(CodecBody(n - 2, fill)) EXCEPT ![n - 1] = Xor(@, 128)] :
                n \in 2..MaxLen, fill \in 0..MaxFill }

\* read() has filled the buffer and returned its length, or failed
InitCodec ==
    /\ pc = "codec"
    /\ step = "check"
    /\ msg = ""
    /\ vals = Declared(0)
    /\ fdOpen = TRUE
    /\ sent = <<>>
    /\ \/ buf \in CodecInputs /\ len = Len(buf)
       \/ buf = <<>> /\ len = -1
    /\ trace = <<>>
    /\ stdout = <<>>
    /\ exitCode = -1
    /\ meter = 0
    /\ verdicts = <<>>

\* every validator and every query function is applied to the buffer
CodecCheck ==
    /\ pc = "codec"
    /\ step = "check"
    /\ verdicts' = [v1b   |-> checkResult_1b(buf, len),
                    v3b   |-> checkResult_3b(buf, len),
                    v3x3b |-> checkResult_3x3b(buf, len),
                    v4x3b |-> checkResult_4x3b(buf, len),
                    v4x4b |-> checkResult_4x4b(buf, len),
                    ret   |-> [s \in QuerySites |-> Call(s, buf, len, vals).ret]]
    /\ step' = "done"
    /\ UNCHANGED << pc, msg, vals, fdOpen, sent, buf, len, trace, stdout, exitCode, meter >>

NextCodec == CodecCheck

SpecCodec == InitCodec /\ [][NextCodec]_vars

(***************************************************************************)
(* Decoder specification: B3F and B4F applied to the value members of a    *)
(* result structure, every byte drawn from DecodeBytes.                    *)
(***************************************************************************)
DecodeBytes == {0, 1, 2, 3, 4, 127, 128, 255}

\* a result structure member of four bytes has been received
InitDecode ==
    /\ pc = "decode"
    /\ step = "check"
    /\ msg = ""
    /\ vals = Declared(0)
    /\ fdOpen = TRUE
    /\ sent = <<>>
    /\ buf \in [1..4 -> DecodeBytes]
    /\ len = 4
    /\ trace = <<>>
    /\ stdout = <<>>
    /\ exitCode = -1
    /\ meter = 0
    /\ verdicts = <<>>

\* B3F on the first three bytes, B4F on all four
DecodeApply ==
    /\ pc = "decode"
    /\ step = "check"
    /\ verdicts' = [b3 |-> B3F(Field(buf, 0, 3), 100),
                    b4 |-> B4F(Field(buf, 0, 4), 1000)]
    /\ step' = "done"
    /\ UNCHANGED << pc, msg, vals, fdOpen, sent, buf, len, trace, stdout, exitCode, meter >>

NextDecode == DecodeApply

SpecDecode == InitDecode /\ [][NextDecode]_vars

(***************************************************************************)
(* Properties.                                                             *)
(***************************************************************************)
TraceIdx == 1..Len(trace)

Calls(c) == { i \in TraceIdx : trace[i].call = c }

IsReturn(e) == e.call = "return"

Returns == SelectSeq(trace, IsReturn)

Kind(site) == IF site \in {"checkChannel", "checkChannel2"} THEN "probe" ELSE site

SentKinds == [i \in 1..Len(sent) |-> Kind(sent[i].site)]

NotProbe(k) == k # "probe"

IsPrefix(a, b) == Len(a) <= Len(b) /\ a = SubSeq(b, 1, Len(a))

Zero3(v) == v.p1.val = 0 /\ v.p2.val = 0 /\ v.p3.val = 0

Zero4(v) == Zero3(v) /\ v.sum.val = 0

AllZero(m) ==
    /\ Zero3(m.U) /\ Zero3(m.I) /\ Zero3(m.A) /\ m.f.val = 0
    /\ Zero4(m.C) /\ Zero4(m.P) /\ Zero4(m.S)
    /\ Zero4(m.PR) /\ Zero4(m.PY) /\ Zero4(m.PT)

FirstProbeTimedOut ==
    \E i \in TraceIdx : trace[i] = Ev("select", "checkChannel", 0)

\* C1: when select() times out on the first probe, no frame but the probe is
\* ever written and the table that is printed holds 0.0 in every quantity.
C1_TimedOutProbeAllZero ==
    FirstProbeTimedOut =>
        /\ Len(sent) = 1
        /\ stdout # <<>> => AllZero(stdout[1])

\* a time-out after the first probe, or a reply that is the wrong size, has
\* the wrong checksum or carries a status other than Ok
FatalEvent(e) ==
    \/ e.call = "select" /\ e.ret = 0 /\ e.site # "checkChannel"
    \/ e.call = "return" /\ e.ret \in ({WRONG_RESULT_SIZE, WRONG_CRC} \cup 1..15)

\* C2: a time-out is survived only on the first probe: after a time-out on
\* any later command, or a wrong size, wrong checksum or non-Ok status on any
\* command, the program is in exitFailure or has exited with EXIT_FAIL and
\* no table is printed; after a time-out on the first probe it never fails.
C2_OnlyFirstTimeoutRecovers ==
    /\ (\E i \in TraceIdx : FatalEvent(trace[i])) =>
          /\ pc \in {"exitFailure", "exited"}
          /\ pc = "exited" => exitCode = EXIT_FAIL
          /\ stdout = <<>>
    /\ FirstProbeTimedOut =>
          /\ pc \in {"close", "tcsetattr", "printf", "exited"}
          /\ pc = "exited" => exitCode = EXIT_OK /\ stdout # <<>>

C2_Witness ==
    /\ pc = "exited"
    /\ exitCode = EXIT_FAIL
    /\ \E i \in TraceIdx : trace[i] = Ev("select", "getF", 0)

\* C3: after the probes the frames written are a prefix of initialize,
\* voltage, current, power factor, frequency, phase angles, active power,
\* reactive power, energy from reset, yesterday, today, terminate; and a
\* frame is written only when every earlier command has returned Ok.
C3_FixedOrderStopsAtFirstFailure ==
    /\ IsPrefix(SelectSeq(SentKinds, NotProbe), SubSeq(Sites, 3, 14))
    /\ \A i \in 2..Len(sent) :
          /\ Len(Returns) >= i - 1
          /\ \A j \in 1..(i - 1) :
                Returns[j].site = sent[j].site /\ Returns[j].ret = OK

C3_Witness ==
    /\ pc = "exited"
    /\ Len(sent) = 3
    /\ \E i \in TraceIdx : trace[i] = Ev("return", "initConnection", ILLEGAL_CMD)

AllRepliesOk ==
    /\ pc = "exited"
    /\ exitCode = EXIT_OK
    /\ \A i \in Calls("return") : trace[i].ret = OK

\* what each quantity is when decoded from the reply the meter gives to its
\* own query in this run
Readings ==
    LET reply(site, n) == <<PM_ADDRESS>> \o Payload(meter, SiteNo(site), n)
    IN  [U  |-> P3V_3x3b(reply("getU", 9), 100),
         I  |-> P3V_3x3b(reply("getI", 9), 1000),
         C  |-> P3VS_4x3b(reply("getCosF", 12), 1000),
         f  |-> B3F(Field(reply("getF", 3), 1, 3), 100),
         A  |-> P3V_3x3b(reply("getA", 9), 100),
         P  |-> P3VS_4x3b(reply("getP", 12), 1000),
         S  |-> P3VS_4x3b(reply("getS", 12), 1000),
         PR |-> P3VS_4x4b(reply("getW_PR", 16), 1000),
         PY |-> P3VS_4x4b(reply("getW_PY", 16), 1000),
         PT |-> P3VS_4x4b(reply("getW_PT", 16), 1000)]

\* C4: when every reply validates as Ok the frames written are exactly
\* probe, initialize, the seven single-quantity queries, the three energy
\* queries and terminate, 13 frames, and the ten quantities hold the
\* values decoded from their own replies.
C4_ThirteenFramesOnSuccess ==
    AllRepliesOk =>
        /\ SentKinds = <<"probe">> \o SubSeq(Sites, 3, 14)
        /\ vals = Readings

\* C5: no command is written twice in a run.
C5_EachCommandAtMostOnce ==
    \A i, j \in 1..Len(sent) : Kind(sent[i].site) = Kind(sent[j].site) => i = j

\* C6: on every exit the descriptor has been closed exactly once, before
\* the exit and, on a failure, before the failure message.
C6_ClosedOnceOnEveryExit ==
    pc = "exited" =>
        /\ Cardinality(Calls("close")) = 1
        /\ \A c \in Calls("close") :
              /\ trace[c].ret = 0
              /\ \A e \in Calls("exit") : c < e
              /\ exitCode = EXIT_FAIL => \A m \in Calls("printf") : c < m

Between(c, i, j) == { k \in Calls(c) : i < k /\ k < j }

After(c, i) == { k \in Calls(c) : i < k }

\* C7: between two successive writes there is exactly one select() and at most one
\* read(); after the last write at most one of each; nothing is read before
\* the first write; and after a reply of the wrong size nothing more is
\* read or written.
C7_HalfDuplex ==
    /\ \A i, j \in Calls("write") :
          (i < j /\ Between("write", i, j) = {}) =>
              /\ Cardinality(Between("select", i, j)) = 1
              /\ Cardinality(Between("read", i, j)) <= 1
    /\ \A i \in Calls("write") :
          After("write", i) = {} =>
              /\ Cardinality(After("select", i)) <= 1
              /\ Cardinality(After("read", i)) <= 1
    /\ \A k \in Calls("select") \cup Calls("read") :
          \E i \in Calls("write") : i < k
    /\ \A r \in Calls("return") :
          trace[r].ret = WRONG_RESULT_SIZE =>
              After("select", r) \cup After("read", r) \cup After("write", r) = {}

C7_Witness ==
    /\ pc = "exited"
    /\ Len(sent) >= 4
    /\ \E r \in Calls("return") :
          /\ trace[r].ret = WRONG_RESULT_SIZE
          /\ trace[r - 1].call = "read"
          /\ trace[r - 1].ret > 0

\* the last two bytes of the buffer are the checksum of the bytes before them
CrcMatches ==
    LET crc == ModRTU_CRC(SubSeq(buf, 1, len - 2), len - 2)
    IN  buf[len - 1] = crc % 256 /\ buf[len] = crc \div 256

\* the validators with the exact length of their shape, the last one as given
ValidatorsExact(last) ==
    verdicts # <<>> =>
        \A v \in { <<verdicts.v1b, 4>>, <<verdicts.v3b, 6>>, <<verdicts.v3x3b, 12>>,
                   <<verdicts.v4x3b, 15>>, <<verdicts.v4x4b, last>> } :
            /\ len # v[2] => v[1] = WRONG_RESULT_SIZE
            /\ (len = v[2] /\ ~CrcMatches) => v[1] = WRONG_CRC

\* C8 as stated: the exact lengths are 4, 6, 12, 15 and 18.
C8_ExactLengthsAsStated == ValidatorsExact(18)

\* C8: each validator answers WrongSize for every buffer whose length is not
\* the exact length of its shape, 4, 6, 12, 15 and 19, and WrongChecksum for
\* a buffer of the exact length whose last two bytes are not the checksum of
\* the bytes before them.
C8_ExactLengths == ValidatorsExact(19)

C8_Witness ==
    /\ verdicts # <<>>
    /\ len = 19
    /\ ~CrcMatches
    /\ verdicts.v4x4b = WRONG_CRC
    /\ verdicts.v4x3b = WRONG_RESULT_SIZE

PassesAs1b == verdicts # <<>> /\ len = 4 /\ CrcMatches

\* C9 as stated: the result is the low 4 bits of the status byte and is one
\* of the six status codes 0..5.
C9_StatusIsOneOfSix ==
    PassesAs1b => verdicts.v1b = buf[2] % 16 /\ verdicts.v1b \in 0..5

\* C9: for a 4-byte buffer with a matching checksum checkResult_1b answers
\* the low 4 bits of the status byte, a value in 0..15.
C9_StatusIsLowNibble ==
    PassesAs1b => verdicts.v1b = buf[2] % 16 /\ verdicts.v1b \in 0..15

C9_Witness == PassesAs1b /\ buf[2] >= 16 /\ verdicts.v1b = 6

\* the exact length of the reply each query accepts
QueryLen(site) ==
    CASE site \in {"getU", "getI", "getA"}          -> 12
      [] site \in {"getCosF", "getP", "getS"}       -> 15
      [] site = "getF"                              -> 6
      [] site \in {"getW_PR", "getW_PY", "getW_PT"} -> 19

\* C10: a query returns Ok, WrongSize or WrongChecksum only; Ok exactly when
\* the reply has the exact length of its shape and a matching checksum; and
\* a 4-byte status frame with a matching checksum is answered WrongSize.
C10_QueriesReturnNoStatus ==
    verdicts # <<>> =>
        \A s \in QuerySites :
            /\ verdicts.ret[s] \in {OK, WRONG_RESULT_SIZE, WRONG_CRC}
            /\ verdicts.ret[s] = OK <=> (len = QueryLen(s) /\ CrcMatches)
            /\ (len = 4 /\ CrcMatches) => verdicts.ret[s] = WRONG_RESULT_SIZE

C10_Witness ==
    /\ verdicts # <<>>
    /\ len = 4
    /\ CrcMatches
    /\ buf[2] % 16 \in 1..5
    /\ \A s \in QuerySites : verdicts.ret[s] = WRONG_RESULT_SIZE

\* sizeof of the command structure written at a site
FrameLen(site) ==
    CASE Kind(site) = "probe"      -> 4
      [] site = "initConnection"   -> 11
      [] site = "closeConnection"  -> 4
      [] OTHER                     -> 6

\* C11: every frame written has the length of its command, 4 for the probe,
\* 11 for initialize, 4 for terminate and 6 for a read-parameter request, and
\* ends in the checksum of the bytes before it, low byte first then high
\* byte; the probe is the frame 00 00 01 B0.
C11_RequestsEndInTheirChecksum ==
    \A i \in 1..Len(sent) :
        LET fr  == sent[i].frame
            n   == Len(fr)
            crc == ModRTU_CRC(SubSeq(fr, 1, n - 2), n - 2)
        IN  /\ n = FrameLen(sent[i].site)
            /\ fr[n - 1] = crc % 256
            /\ fr[n] = crc \div 256
            /\ Kind(sent[i].site) = "probe" => fr = <<0, 0, 1, 176>>

C11_Witness ==
    /\ Len(sent) = 14
    /\ sent[14].site = "closeConnection"
    /\ sent[12].frame[3] = 80

\* C12: the integer B4F divides is b[1]*2^24 + b[0]*2^16 + b[3]*2^8 + b[2],
\* a value in 0..2^32-1, so never negative: its upper 16 bits are
\* b[1]*2^8 + b[0] and its lower 16 bits b[3]*2^8 + b[2]; 01 02 03 04 gives
\* 33620995.
C12_B4FIsUnsigned ==
    verdicts # <<>> =>
        /\ verdicts.b4.val >= 0
        /\ verdicts.b4.val \div 65536 = buf[2] * 256 + buf[1]
        /\ verdicts.b4.val % 65536 = buf[4] * 256 + buf[3]
        /\ buf = <<1, 2, 3, 4>> => verdicts.b4.val = 33620995

\* C13: the integer B3F divides is b[0]*2^16 + b[2]*2^8 + b[1], a value in
\* 0..2^24-1; 01 02 03 gives 66306.
C13_B3FSwapsLastTwo ==
    verdicts # <<>> =>
        /\ verdicts.b3.val = buf[1] * 65536 + buf[3] * 256 + buf[2]
        /\ verdicts.b3.val \in 0..16777215
        /\ verdicts.b3.factor = 100
        /\ Field(buf, 0, 3) = <<1, 2, 3>> => verdicts.b3.val = 66306

C13_Witness ==
    /\ verdicts # <<>>
    /\ Field(buf, 0, 3) = <<1, 2, 3>>
    /\ verdicts.b3.val = 66306

\* C14: each write is followed by a sleep and each sleep lies between the
\* write and the select() of the same command, and the sleep lasts the 50
\* milliseconds of the inter-command delay (usleep counts microseconds).
C14_SleepsFiftyMilliseconds ==
    /\ \A i \in Calls("write") :
          i < Len(trace) => trace[i + 1].call = "usleep"
    /\ \A i \in Calls("usleep") :
          /\ i > 1
          /\ trace[i - 1].call = "write"
          /\ trace[i - 1].site = trace[i].site
          /\ i < Len(trace) => trace[i + 1].call = "select"
          /\ trace[i].ret = 50 * 1000

\* the call at each site of main is made once: no site writes two frames
NoStepRepeated ==
    \A i, j \in 1..Len(sent) : sent[i].site = sent[j].site => i = j

\* C15: every run ends, whatever the line delivers: the program exits, and
\* until then no call of main is repeated, so at most 14 frames are sent.
C15_EveryRunTerminates ==
    /\ <>(pc = "exited")
    /\ [](NoStepRepeated /\ Len(sent) <= Len(Sites))

C15_Witness ==
    /\ pc = "exited"
    /\ exitCode = EXIT_FAIL
    /\ Len(sent) = Len(Sites)
    /\ msg = "Communication channel timeout."

\* the call of main that has just returned, and the length its reply must have
LastEvent == trace[Len(trace)]

ReplyLen(site) == IF site \in QuerySites THEN QueryLen(site) ELSE SizeofResult_1b

JustReturned == trace # <<>> /\ IsReturn(LastEvent)

\* where main goes after the call at site has returned Ok
AfterOk(site) ==
    CASE site = "checkChannel"    -> "checkChannel2"
      [] site = "closeConnection" -> "close"
      [] OTHER                    -> Sites[SiteNo(site) + 1]

\* C16: a reply of the exact length with a matching checksum is accepted
\* whatever its address byte is: a query returns Ok, a status command the low
\* 4 bits of the status byte, and on Ok main goes on to its next call.
C16_AddressNeverInspected ==
    (JustReturned /\ len = ReplyLen(LastEvent.site) /\ CrcMatches) =>
        /\ LastEvent.ret = IF LastEvent.site \in QuerySites THEN OK ELSE buf[2] % 16
        /\ LastEvent.ret = OK => pc = AfterOk(LastEvent.site)

C16_Witness ==
    /\ JustReturned
    /\ LastEvent.site = "getU"
    /\ len = ReplyLen("getU")
    /\ CrcMatches
    /\ buf[1] # PM_ADDRESS
    /\ LastEvent.ret = OK
    /\ pc = "getI"

\* C17: tcsetattr is called once on the exits that do not abort and never on
\* an abort, and when it is called close has returned before it and the
\* descriptor is no longer open, so the call fails.
C17_RestoreAfterCloseOnly ==
    /\ \A t \in Calls("tcsetattr") :
          /\ \E c \in Calls("close") : c < t
          /\ trace[t].ret = -1
    /\ pc = "exited" =>
          /\ exitCode = EXIT_OK   => Cardinality(Calls("tcsetattr")) = 1
          /\ exitCode = EXIT_FAIL => Calls("tcsetattr") = {} /\ Calls("close") = {}
          /\ exitCode \in {EXIT_OK, EXIT_FAIL}

C17_Witness ==
    /\ pc = "exited"
    /\ exitCode = EXIT_OK
    /\ Len(sent) = 1
    /\ Calls("tcsetattr") # {}
    /\ ~fdOpen

====
